---- MODULE Spec2Model ----
(***************************************************************************)
(* Model of gpu-cpu-fan-control.py: the FanController control loop, its    *)
(* threshold policy (determine_fan_speed), the IPMI actuator commands      *)
(* (set_fan_speed / restore_auto_fan through run_command), the sensor      *)
(* readers (get_gpu_data / get_cpu_temp) and the signal handler (cleanup). *)
(*                                                                         *)
(* The process is one Python thread.  A Python-level signal handler runs   *)
(* on that thread between bytecodes or when a blocking call is             *)
(* interrupted, and may itself be interrupted by a later signal, so the    *)
(* handler invocations form a stack on top of the interrupted main flow.   *)
(* sys.exit raises SystemExit, which no except clause of the program       *)
(* catches (they catch Exception, CalledProcessError, KeyboardInterrupt),  *)
(* so it unwinds every frame and ends the process.                         *)
(***************************************************************************)
EXTENDS Integers, Sequences, FiniteSets, TLC

\* ---------------------------------------------------------------- bounds
\* Signals delivered to the process in one execution.
MaxSignals == 2
\* Thermal-zone files under /sys/class/thermal.
MaxZones == 2
\* "Package id" lines in the output of `sensors`.
MaxLines == 1
\* GPU rows in the output of nvidia-smi.
MaxGpus == 2
\* Distance from each threshold of the readings the policy is applied to.
PolicyMargin == 1
\* Cycles of a run in which one reading alternates across a breakpoint.
MaxDriftCycles == 4

\* ------------------------------------------------- FanController.__init__
GPU_TEMP_LOW == 50
GPU_TEMP_MEDIUM == 60
GPU_TEMP_HIGH == 70
GPU_TEMP_CRITICAL == 80

CPU_TEMP_LOW == 35
CPU_TEMP_MEDIUM == 45
CPU_TEMP_HIGH == 60
CPU_TEMP_CRITICAL == 75

UTIL_LOW == 30
UTIL_HIGH == 70

FAN_DEFAULT == 32
FAN_MEDIUM == 50
\* The digits of 0x48 read as a decimal number.
FAN_HIGH_decimal == 4 * 10 + 8

FAN_HIGH == 72
FAN_MAX == 100

FanLevels == {FAN_DEFAULT, FAN_MEDIUM, FAN_HIGH, FAN_MAX}

\* The levels in the order of their names: default, medium, high, max.
LevelOrder == <<FAN_DEFAULT, FAN_MEDIUM, FAN_HIGH, FAN_MAX>>

VARIABLES
    pc,              \* position of the main flow (run)
    stack,           \* active cleanup invocations, innermost last
    current_speed,   \* self.current_speed
    gpu_temp,        \* locals of run: the snapshot of the current cycle
    gpu_util,
    cpu_temp,
    new_speed,       \* locals of run: the decision of the current cycle
    reason,
    speed_hex,       \* argument of the latest set_fan_speed call
    commit_ok,       \* "none" | "ok" | "failed": the commands of that call
    hw_mode,         \* BMC fan-control mode: "auto" | "manual"
    hw_duty,         \* duty cycle last accepted by the BMC (0: none yet)
    inflight,        \* actuator commands of interrupted frames, still running
    restore_calls,   \* invocations of restore_auto_fan
    restore_failed,  \* a restore command has exited non-zero
    signals,         \* signals delivered so far
    error,           \* exception caught at the loop boundary ("none" if none)
    failed_sources,  \* sensor sources that produced no reading this cycle
    exit_status,     \* -1 while the process lives
    issued,          \* actuator commands issued: the first two and the last
    telemetry_read,  \* a sensor read of the loop has been made
    missing,         \* the required command check_commands found absent
    drift            \* sensor scenario driving the snapshots (NoDrift: free)

vars == <<pc, stack, current_speed, gpu_temp, gpu_util, cpu_temp, new_speed,
          reason, speed_hex, commit_ok, hw_mode, hw_duty, inflight,
          restore_calls, restore_failed, signals, error, failed_sources,
          exit_status, issued, telemetry_read, missing, drift>>

locals == <<gpu_temp, gpu_util, cpu_temp, new_speed, reason>>
hardware == <<hw_mode, hw_duty>>
shutdown ==
    <<stack, inflight, restore_calls, restore_failed, signals, exit_status>>

observed == <<issued, telemetry_read, missing>>

NoDrift == [axis |-> "none"]
NoReason == [text |-> ""]

\* ----------------------------------------------------- determine_fan_speed
\* The f-strings of the two temperature rules carry the two temperatures.
TempReason(label, g_temp, c_temp) ==
    [text |-> label, gpu |-> g_temp, cpu |-> c_temp]

\* The rule chain with its parts given; the variants of determine_fan_speed
\* below differ from it in one part each.
RuleChain(critical, high, medium, quiet, held, g_temp, c_temp) ==
    IF critical
    THEN [speed |-> FAN_MAX,
          reason |-> TempReason("CRITICAL temperature", g_temp, c_temp)]
    ELSE IF high
    THEN [speed |-> FAN_HIGH,
          reason |-> TempReason("HIGH temperature", g_temp, c_temp)]
    ELSE IF medium
    THEN [speed |-> FAN_MEDIUM,
          reason |-> [text |-> "MEDIUM temperature or HIGH utilization"]]
    ELSE IF quiet
    THEN [speed |-> FAN_DEFAULT,
          reason |-> [text |-> "LOW temperatures and utilization"]]
    ELSE [speed |-> held,
          reason |-> [text |-> "maintaining current level"]]

IsCritical(g_temp, c_temp) ==
    g_temp >= GPU_TEMP_CRITICAL \/ c_temp >= CPU_TEMP_CRITICAL
IsHigh(g_temp, c_temp) ==
    g_temp >= GPU_TEMP_HIGH \/ c_temp >= CPU_TEMP_HIGH
IsMedium(g_temp, c_temp, g_util) ==
    g_temp >= GPU_TEMP_MEDIUM \/ c_temp >= CPU_TEMP_MEDIUM \/ g_util >= UTIL_HIGH
IsQuiet(g_temp, c_temp, g_util) ==
    g_temp < GPU_TEMP_LOW /\ c_temp < CPU_TEMP_LOW /\ g_util < UTIL_LOW

\* Variant: the critical rule compares with > instead of >=.
determine_fan_speed_strict_critical(g_temp, c_temp, g_util) ==
    RuleChain(g_temp > GPU_TEMP_CRITICAL \/ c_temp > CPU_TEMP_CRITICAL,
              IsHigh(g_temp, c_temp), IsMedium(g_temp, c_temp, g_util),
              IsQuiet(g_temp, c_temp, g_util), current_speed, g_temp, c_temp)

\* Variant: the quiet rule compares with <= instead of <.
determine_fan_speed_quiet_inclusive(g_temp, c_temp, g_util) ==
    RuleChain(IsCritical(g_temp, c_temp), IsHigh(g_temp, c_temp),
              IsMedium(g_temp, c_temp, g_util),
              g_temp <= GPU_TEMP_LOW /\ c_temp <= CPU_TEMP_LOW
                  /\ g_util <= UTIL_LOW,
              current_speed, g_temp, c_temp)

\* Variant: the medium rule leaves out the utilization.
determine_fan_speed_no_util(g_temp, c_temp, g_util) ==
    RuleChain(IsCritical(g_temp, c_temp), IsHigh(g_temp, c_temp),
              g_temp >= GPU_TEMP_MEDIUM \/ c_temp >= CPU_TEMP_MEDIUM,
              IsQuiet(g_temp, c_temp, g_util), current_speed, g_temp, c_temp)

\* Variant: the critical rule asks for the full 8-bit duty value instead of
\* the table's maximum.
determine_fan_speed_full_duty(g_temp, c_temp, g_util) ==
    IF IsCritical(g_temp, c_temp)
    THEN [speed |-> 255,
          reason |-> TempReason("CRITICAL temperature", g_temp, c_temp)]
    ELSE RuleChain(FALSE, IsHigh(g_temp, c_temp),
                   IsMedium(g_temp, c_temp, g_util),
                   IsQuiet(g_temp, c_temp, g_util), current_speed, g_temp,
                   c_temp)

\* Variant: the middle ranges ask for the medium level instead of holding.
determine_fan_speed_middle_medium(g_temp, c_temp, g_util) ==
    RuleChain(IsCritical(g_temp, c_temp), IsHigh(g_temp, c_temp),
              IsMedium(g_temp, c_temp, g_util),
              IsQuiet(g_temp, c_temp, g_util), FAN_MEDIUM, g_temp, c_temp)

\* Variant: no hysteresis, the middle ranges fall back to the default level.
determine_fan_speed_no_hysteresis(g_temp, c_temp, g_util) ==
    RuleChain(IsCritical(g_temp, c_temp), IsHigh(g_temp, c_temp),
              IsMedium(g_temp, c_temp, g_util),
              IsQuiet(g_temp, c_temp, g_util), FAN_DEFAULT, g_temp, c_temp)

determine_fan_speed(g_temp, c_temp, g_util) ==
    IF g_temp >= GPU_TEMP_CRITICAL \/ c_temp >= CPU_TEMP_CRITICAL
    THEN [speed |-> FAN_MAX,
          reason |-> TempReason("CRITICAL temperature", g_temp, c_temp)]
    ELSE IF g_temp >= GPU_TEMP_HIGH \/ c_temp >= CPU_TEMP_HIGH
    THEN [speed |-> FAN_HIGH,
          reason |-> TempReason("HIGH temperature", g_temp, c_temp)]
    ELSE IF g_temp >= GPU_TEMP_MEDIUM \/ c_temp >= CPU_TEMP_MEDIUM
            \/ g_util >= UTIL_HIGH
    THEN [speed |-> FAN_MEDIUM,
          reason |-> [text |-> "MEDIUM temperature or HIGH utilization"]]
    ELSE IF g_temp < GPU_TEMP_LOW /\ c_temp < CPU_TEMP_LOW /\ g_util < UTIL_LOW
    THEN [speed |-> FAN_DEFAULT,
          reason |-> [text |-> "LOW temperatures and utilization"]]
    ELSE [speed |-> current_speed,
          reason |-> [text |-> "maintaining current level"]]

\* ------------------------------------------------------------ sensor inputs
SeqsUpTo(S, n) == UNION {[1..k -> S] : k \in 0..n}

\* One row of nvidia-smi's csv output: a "temperature, utilization" pair, a
\* row with two fields that are not integers, or a row with fewer than two
\* fields (skipped by the len(parts) >= 2 test).
GpuRowTemps == {GPU_TEMP_LOW - 1, GPU_TEMP_LOW, GPU_TEMP_MEDIUM, GPU_TEMP_HIGH,
                GPU_TEMP_CRITICAL}
GpuRowUtils == {UTIL_LOW - 1, UTIL_LOW, UTIL_HIGH}
GpuRows ==
    [kind : {"row"}, temp : GpuRowTemps, util : GpuRowUtils]
    \cup [kind : {"malformed", "short"}, temp : {0}, util : {0}]

\* What run_command returns for nvidia-smi: None when the command fails
\* (ok = FALSE), else its stripped stdout as a list of rows (possibly empty).
NvidiaSmiOutputs ==
    {[ok |-> FALSE, rows |-> <<>>]}
    \cup [ok : {TRUE}, rows : SeqsUpTo(GpuRows, MaxGpus)]

\* One thermal_zone*/temp file: its contents in millidegrees, or the
\* exception raised by open/read/int.
ZoneMillis == {999, CPU_TEMP_LOW * 1000 - 1, CPU_TEMP_LOW * 1000,
               CPU_TEMP_MEDIUM * 1000, CPU_TEMP_HIGH * 1000,
               CPU_TEMP_CRITICAL * 1000}
ZoneErrors == {"FileNotFoundError", "ValueError", "PermissionError", "OSError"}
ZoneFiles ==
    [err : {"none"}, milli : ZoneMillis] \cup [err : ZoneErrors, milli : {0}]

\* One line of the output of `sensors`: a "Package id" line with a "+t°C"
\* temperature (in tenths of a degree), a "Package id" line that does not
\* parse, or any other line.
SensorsTenths == {CPU_TEMP_LOW * 10 - 1, CPU_TEMP_LOW * 10,
                  CPU_TEMP_MEDIUM * 10 + 9, CPU_TEMP_HIGH * 10,
                  CPU_TEMP_CRITICAL * 10}
SensorsLines ==
    [kind : {"package"}, tenths : SensorsTenths]
    \cup [kind : {"malformed", "other"}, tenths : {0}]
SensorsOutputs ==
    {[ok |-> FALSE, lines |-> <<>>]}
    \cup [ok : {TRUE}, lines : SeqsUpTo(SensorsLines, MaxLines)]

\* ------------------------------------------------------------- get_gpu_data
\* The for loop over the rows; int() of a malformed field raises ValueError,
\* which the enclosing except turns into (0, 0).
RECURSIVE GpuScan(_, _, _, _, _)
GpuScan(rows, i, max_temp, max_util, parsed) ==
    IF i > Len(rows)
    THEN [temp |-> max_temp, util |-> max_util, failed |-> parsed = 0]
    ELSE IF rows[i].kind = "short"
    THEN GpuScan(rows, i + 1, max_temp, max_util, parsed)
    ELSE IF rows[i].kind = "malformed"
    THEN [temp |-> 0, util |-> 0, failed |-> TRUE]
    ELSE GpuScan(rows, i + 1,
                 IF rows[i].temp > max_temp THEN rows[i].temp ELSE max_temp,
                 IF rows[i].util > max_util THEN rows[i].util ELSE max_util,
                 parsed + 1)

get_gpu_data(output) ==
    IF ~output.ok \/ output.rows = <<>>
    THEN [temp |-> 0, util |-> 0, failed |-> TRUE]
    ELSE GpuScan(output.rows, 1, 0, 0, 0)

\* ------------------------------------------------------------- get_cpu_temp
\* Method 1: the thermal zones.  FileNotFoundError, ValueError and
\* PermissionError are caught per zone; any other exception leaves the method.
RECURSIVE ZoneScan(_, _, _, _)
ZoneScan(zones, i, max_temp, parsed) ==
    IF i > Len(zones)
    THEN [raised |-> "none", temp |-> max_temp, parsed |-> parsed]
    ELSE IF zones[i].err \in {"FileNotFoundError", "ValueError", "PermissionError"}
    THEN ZoneScan(zones, i + 1, max_temp, parsed)
    ELSE IF zones[i].err # "none"
    THEN [raised |-> zones[i].err, temp |-> max_temp, parsed |-> parsed]
    ELSE LET temp_celsius == zones[i].milli \div 1000
         IN  ZoneScan(zones, i + 1,
                      IF temp_celsius > max_temp THEN temp_celsius ELSE max_temp,
                      parsed + 1)

\* Method 2: the "Package id" lines of `sensors`; a line that does not parse
\* raises inside the try, which ends the scan with the maximum found so far.
RECURSIVE SensorsScan(_, _, _, _)
SensorsScan(lines, i, max_temp, parsed) ==
    IF i > Len(lines)
    THEN [temp |-> max_temp, parsed |-> parsed]
    ELSE IF lines[i].kind = "other"
    THEN SensorsScan(lines, i + 1, max_temp, parsed)
    ELSE IF lines[i].kind = "malformed"
    THEN [temp |-> max_temp, parsed |-> parsed]
    ELSE LET temp == lines[i].tenths \div 10
         IN  SensorsScan(lines, i + 1,
                         IF temp > max_temp THEN temp ELSE max_temp,
                         parsed + 1)

get_cpu_temp(zones, sensors_output) ==
    LET m1 == ZoneScan(zones, 1, 0, 0)
    IN  IF m1.raised # "none"
        THEN [raised |-> m1.raised, temp |-> 0, failed |-> TRUE]
        ELSE IF m1.temp # 0
        THEN [raised |-> "none", temp |-> m1.temp, failed |-> FALSE]
        ELSE IF ~sensors_output.ok \/ sensors_output.lines = <<>>
        THEN [raised |-> "none", temp |-> 0, failed |-> m1.parsed = 0]
        ELSE LET m2 == SensorsScan(sensors_output.lines, 1, 0, 0)
             IN  [raised |-> "none", temp |-> m2.temp,
                  failed |-> m1.parsed = 0 /\ m2.parsed = 0]

\* The distinct results the two readers can hand to the loop.
GpuReadings == {get_gpu_data(output) : output \in NvidiaSmiOutputs}
CpuReadings ==
    {get_cpu_temp(zones, out) :
        zones \in SeqsUpTo(ZoneFiles, MaxZones), out \in SensorsOutputs}

\* ------------------------------------------------------------ the actuator
\* f"{speed_hex:#04x}": "0x" and the hexadecimal digits of the value, most
\* significant first, padded with a zero to two digits.
RECURSIVE HexDigits(_)
HexDigits(n) ==
    IF n < 16 THEN <<n>> ELSE Append(HexDigits(n \div 16), n % 16)

Format04x(n) == IF n < 16 THEN <<0, n>> ELSE HexDigits(n)

\* The value ipmitool reads from a 0x argument.
RECURSIVE HexValue(_)
HexValue(digits) ==
    IF digits = <<>> THEN 0
    ELSE 16 * HexValue(SubSeq(digits, 1, Len(digits) - 1))
             + digits[Len(digits)]

\* The duty cycle the duty command carries for a level.
duty_byte(level) == HexValue(Format04x(level))

\* The three ipmitool commands the program issues.
ManualCmd == [op |-> "manual", duty |-> 0]
DutyCmd(level) == [op |-> "duty", duty |-> duty_byte(level)]
AutoCmd == [op |-> "auto", duty |-> 0]

NoCmd == [op |-> "none", duty |-> 0]

\* The record of issued commands after command c is started.
Issue(c) ==
    [first |-> IF Len(issued.first) < 2 THEN Append(issued.first, c)
               ELSE issued.first,
     last |-> c]

\* The BMC after accepting command c.
ModeAfter(c) ==
    IF c.op = "manual" THEN "manual" ELSE IF c.op = "auto" THEN "auto" ELSE hw_mode
DutyAfter(c) == IF c.op = "duty" THEN c.duty ELSE hw_duty

\* run_command: a command that exits non-zero raises CalledProcessError,
\* which run_command logs and turns into the return value None; the BMC is
\* left as it was.  Nothing is raised to the caller either way.
RunCommandEffect(c, ok) ==
    /\ hw_mode' = IF ok THEN ModeAfter(c) ELSE hw_mode
    /\ hw_duty' = IF ok THEN DutyAfter(c) ELSE hw_duty

\* commit_ok after one more run_command result of the current call.
CommitStatus(ok) == IF ok THEN commit_ok ELSE "failed"

\* ------------------------------------------------------------------- state
Running == pc # "exited"
InMain == Running /\ stack = <<>>

Init ==
    /\ pc = "check_ipmitool"
    /\ stack = <<>>
    /\ current_speed = FAN_DEFAULT
    /\ gpu_temp = 0
    /\ gpu_util = 0
    /\ cpu_temp = 0
    /\ new_speed = 0
    /\ reason = NoReason
    /\ speed_hex = 0
    /\ commit_ok = "none"
    /\ hw_mode = "auto"
    /\ hw_duty = 0
    /\ inflight = {}
    /\ restore_calls = 0
    /\ restore_failed = FALSE
    /\ signals = 0
    /\ error = "none"
    /\ failed_sources = {}
    /\ exit_status = -1
    /\ issued = [first |-> <<>>, last |-> NoCmd]
    /\ telemetry_read = FALSE
    /\ missing = "none"
    /\ drift = NoDrift

\* The call set_fan_speed(level, why): the manual-enable command is started.
CallSetFanSpeed(level, why) ==
    /\ speed_hex' = level
    /\ reason' = why
    /\ commit_ok' = "ok"
    /\ issued' = Issue(ManualCmd)
    /\ pc' = "manual_cmd"

\* A dependency check that logs the missing command and carries on.
CheckCommands_lenient ==
    /\ InMain
    /\ pc \in {"check_ipmitool", "check_nvidia_smi"}
    /\ \E present \in BOOLEAN :
        /\ pc' = IF pc = "check_ipmitool" THEN "check_nvidia_smi"
                 ELSE "initial_setting"
        /\ missing' = IF present THEN missing
                      ELSE IF pc = "check_ipmitool" THEN "ipmitool"
                      ELSE "nvidia-smi"
    /\ UNCHANGED <<stack, current_speed, locals, speed_hex, commit_ok,
                   hardware, inflight, restore_calls, restore_failed, signals,
                   error, failed_sources, exit_status, drift, issued,
                   telemetry_read>>

\* check_commands: `which cmd` for ipmitool, then nvidia-smi; a missing one
\* ends the process with sys.exit(1).
CheckCommands ==
    /\ InMain
    /\ pc \in {"check_ipmitool", "check_nvidia_smi"}
    /\ \E present \in BOOLEAN :
        IF present
        THEN /\ pc' = IF pc = "check_ipmitool" THEN "check_nvidia_smi"
                      ELSE "initial_setting"
             /\ exit_status' = exit_status
             /\ missing' = missing
        ELSE /\ pc' = "exited"
             /\ exit_status' = 1
             /\ missing' = IF pc = "check_ipmitool" THEN "ipmitool"
                           ELSE "nvidia-smi"
    /\ UNCHANGED <<stack, current_speed, locals, speed_hex, commit_ok,
                   hardware, inflight, restore_calls, restore_failed, signals,
                   error, failed_sources, drift, issued, telemetry_read>>

\* A start that enters the loop without the initial commit.
InitialSetting_skipped ==
    /\ InMain
    /\ pc = "initial_setting"
    /\ pc' = "get_gpu_data"
    /\ UNCHANGED <<current_speed, locals, speed_hex, commit_ok, hardware,
                   shutdown, error, failed_sources, drift, observed>>

\* run, line 229: set_fan_speed(self.current_speed, "initial setting").
InitialSetting ==
    /\ InMain
    /\ pc = "initial_setting"
    /\ CallSetFanSpeed(current_speed, [text |-> "initial setting"])
    /\ UNCHANGED <<current_speed, gpu_temp, gpu_util, cpu_temp, new_speed,
                   hardware, shutdown, error, failed_sources, drift,
                   telemetry_read, missing>>

\* set_fan_speed, line 102: the manual-enable command ends; the duty-cycle
\* command is started whatever its result was.
FinishManual ==
    /\ InMain
    /\ pc = "manual_cmd"
    /\ \E ok \in BOOLEAN :
        /\ RunCommandEffect(ManualCmd, ok)
        /\ commit_ok' = CommitStatus(ok)
    /\ issued' = Issue(DutyCmd(speed_hex))
    /\ pc' = "duty_cmd"
    /\ UNCHANGED <<current_speed, locals, speed_hex, shutdown, error,
                   failed_sources, drift, telemetry_read, missing>>

\* set_fan_speed, lines 105-109: the duty-cycle command ends; the level is
\* recorded and the call returns, to the loop's first read after the initial
\* setting and to the sleep after a commit of the loop.
FinishDuty ==
    /\ InMain
    /\ pc = "duty_cmd"
    /\ \E ok \in BOOLEAN :
        /\ RunCommandEffect(DutyCmd(speed_hex), ok)
        /\ commit_ok' = CommitStatus(ok)
    /\ current_speed' = speed_hex
    /\ pc' = IF reason.text = "initial setting" THEN "get_gpu_data" ELSE "sleep"
    /\ UNCHANGED <<locals, speed_hex, shutdown, error, failed_sources, drift,
                   observed>>

\* run, line 234: gpu_temp, gpu_util = self.get_gpu_data().
GetGpuData ==
    /\ InMain
    /\ pc = "get_gpu_data"
    /\ drift = NoDrift
    /\ \E r \in GpuReadings :
        /\ gpu_temp' = r.temp
        /\ gpu_util' = r.util
        /\ failed_sources' = IF r.failed THEN {"gpu"} ELSE {}
    /\ telemetry_read' = TRUE
    /\ pc' = "get_cpu_temp"
    /\ UNCHANGED <<current_speed, cpu_temp, new_speed, reason, speed_hex,
                   commit_ok, hardware, shutdown, error, drift, issued,
                   missing>>

\* run, line 235: cpu_temp = self.get_cpu_temp(); an exception that leaves
\* get_cpu_temp is caught by `except Exception` of run.
GetCpuTemp ==
    /\ InMain
    /\ pc = "get_cpu_temp"
    /\ drift = NoDrift
    /\ \E r \in CpuReadings :
        IF r.raised # "none"
        THEN /\ error' = r.raised
             /\ pc' = "except_Exception"
             /\ UNCHANGED <<cpu_temp, failed_sources>>
        ELSE /\ cpu_temp' = r.temp
             /\ failed_sources' =
                    IF r.failed THEN failed_sources \cup {"cpu"} ELSE failed_sources
             /\ pc' = "decide"
             /\ error' = error
    /\ UNCHANGED <<current_speed, gpu_temp, gpu_util, new_speed, reason,
                   speed_hex, commit_ok, hardware, shutdown, drift, observed>>

\* A loop that commits its decision every cycle, changed or not.
Decide_always_commits ==
    /\ InMain
    /\ pc = "decide"
    /\ LET d == determine_fan_speed(gpu_temp, cpu_temp, gpu_util)
       IN  /\ new_speed' = d.speed
           /\ CallSetFanSpeed(d.speed, d.reason)
    /\ UNCHANGED <<current_speed, gpu_temp, gpu_util, cpu_temp, hardware,
                   shutdown, error, failed_sources, drift, telemetry_read,
                   missing>>

\* run, lines 242-246: the decision, and the commit when it differs from the
\* tracked level.
Decide ==
    /\ InMain
    /\ pc = "decide"
    /\ LET d == determine_fan_speed(gpu_temp, cpu_temp, gpu_util)
       IN  /\ new_speed' = d.speed
           /\ IF d.speed # current_speed
              THEN CallSetFanSpeed(d.speed, d.reason)
              ELSE /\ reason' = d.reason
                   /\ pc' = "sleep"
                   /\ UNCHANGED <<speed_hex, commit_ok, issued>>
    /\ UNCHANGED <<current_speed, gpu_temp, gpu_util, cpu_temp, hardware,
                   shutdown, error, failed_sources, drift, telemetry_read,
                   missing>>

\* run, line 249: time.sleep(self.INTERVAL) returns; the next cycle starts.
\* The snapshot and the decision of the cycle that ended are dead from here
\* on (each is rebound by the next cycle before it is read), so they are
\* dropped.
Sleep ==
    /\ InMain
    /\ pc = "sleep"
    /\ pc' = "get_gpu_data"
    /\ gpu_temp' = 0
    /\ gpu_util' = 0
    /\ cpu_temp' = 0
    /\ new_speed' = 0
    /\ reason' = NoReason
    /\ failed_sources' = {}
    /\ UNCHANGED <<current_speed, speed_hex, commit_ok, hardware, shutdown,
                   error, drift, observed>>

\* A loop boundary that logs the error and lets the process end without
\* calling cleanup.
ExceptException_no_cleanup ==
    /\ InMain
    /\ pc = "except_Exception"
    /\ pc' = "exited"
    /\ exit_status' = 1
    /\ UNCHANGED <<current_speed, locals, speed_hex, commit_ok, hardware,
                   stack, inflight, restore_calls, restore_failed, signals,
                   error, failed_sources, drift, observed>>

\* run, lines 253-255: the handler of `except Exception` calls cleanup().
ExceptException ==
    /\ InMain
    /\ pc = "except_Exception"
    /\ pc' = "cleanup"
    /\ stack' = <<"enter">>
    /\ UNCHANGED <<current_speed, locals, speed_hex, commit_ok, hardware,
                   inflight, restore_calls, restore_failed, signals, error,
                   failed_sources, exit_status, drift, observed>>

\* -------------------------------------------------------------- the signal
\* The actuator command the interrupted frame was waiting for, if any: it
\* keeps running while the handler runs.
Interrupted ==
    IF stack # <<>>
    THEN IF stack[Len(stack)] = "restore_cmd" THEN {AutoCmd} ELSE {}
    ELSE IF pc = "manual_cmd" THEN {ManualCmd}
    ELSE IF pc = "duty_cmd" THEN {DutyCmd(speed_hex)}
    ELSE {}

\* SIGINT or SIGTERM is delivered: cleanup is entered on top of whatever was
\* running, the main flow or an earlier cleanup.
Signal ==
    /\ Running
    /\ signals < MaxSignals
    /\ signals' = signals + 1
    /\ stack' = Append(stack, "enter")
    /\ inflight' = inflight \cup Interrupted
    /\ UNCHANGED <<pc, current_speed, locals, speed_hex, commit_ok, hardware,
                   restore_calls, restore_failed, error, failed_sources,
                   exit_status, drift, observed>>

Top == stack[Len(stack)]
SetTop(v) == [stack EXCEPT ![Len(stack)] = v]

\* cleanup, line 125: restore_auto_fan is invoked; its command is started.
CleanupRestore ==
    /\ Running
    /\ stack # <<>>
    /\ Top = "enter"
    /\ stack' = SetTop("restore_cmd")
    /\ restore_calls' = restore_calls + 1
    /\ issued' = Issue(AutoCmd)
    /\ UNCHANGED <<pc, current_speed, locals, speed_hex, commit_ok, hardware,
                   inflight, restore_failed, signals, error, failed_sources,
                   exit_status, drift, telemetry_read, missing>>

\* restore_auto_fan, line 117: the restore command ends.
FinishRestore ==
    /\ Running
    /\ stack # <<>>
    /\ Top = "restore_cmd"
    /\ \E ok \in BOOLEAN :
        /\ RunCommandEffect(AutoCmd, ok)
        /\ restore_failed' = (restore_failed \/ ~ok)
    /\ stack' = SetTop("sys_exit")
    /\ UNCHANGED <<pc, current_speed, locals, speed_hex, commit_ok, inflight,
                   restore_calls, signals, error, failed_sources, exit_status,
                   drift, observed>>

\* A handler that returns to the interrupted frame instead of exiting.
SysExit_returns ==
    /\ Running
    /\ stack # <<>>
    /\ Top = "sys_exit"
    /\ stack' = SubSeq(stack, 1, Len(stack) - 1)
    /\ UNCHANGED <<pc, exit_status, inflight, current_speed, locals,
                   speed_hex, commit_ok, hardware, restore_calls,
                   restore_failed, signals, error, failed_sources, drift,
                   observed>>

\* cleanup, line 126: sys.exit(0).  SystemExit unwinds every frame and the
\* process ends; subprocess.run kills the shell of each frame it unwinds.
\* What a command still in flight does after that is outside the model.
SysExit ==
    /\ Running
    /\ stack # <<>>
    /\ Top = "sys_exit"
    /\ pc' = "exited"
    /\ exit_status' = 0
    /\ stack' = <<>>
    /\ inflight' = {}
    /\ UNCHANGED <<current_speed, locals, speed_hex, commit_ok, hardware,
                   restore_calls, restore_failed, signals, error,
                   failed_sources, drift, observed>>

\* A command of an interrupted frame reaches the BMC, or ends without effect,
\* while the handler runs.
InflightEnds ==
    /\ Running
    /\ \E c \in inflight :
        /\ \E ok \in BOOLEAN :
            /\ RunCommandEffect(c, ok)
            /\ restore_failed' = (restore_failed \/ (c.op = "auto" /\ ~ok))
        /\ inflight' = inflight \ {c}
    /\ UNCHANGED <<pc, stack, current_speed, locals, speed_hex, commit_ok,
                   restore_calls, signals, error, failed_sources, exit_status,
                   drift, observed>>

Next ==
    \/ CheckCommands
    \/ InitialSetting
    \/ FinishManual
    \/ FinishDuty
    \/ GetGpuData
    \/ GetCpuTemp
    \/ Decide
    \/ Sleep
    \/ ExceptException
    \/ Signal
    \/ CleanupRestore
    \/ FinishRestore
    \/ SysExit
    \/ InflightEnds

Spec == Init /\ [][Next]_vars

\* ------------------------------------------------- the policy on its own
\* Readings around every threshold, with the extremes 0 and 100.
Around(thresholds) ==
    {0, 100} \cup UNION {(t - PolicyMargin)..(t + PolicyMargin) : t \in thresholds}

GpuBreakpoints ==
    {GPU_TEMP_LOW, GPU_TEMP_MEDIUM, GPU_TEMP_HIGH, GPU_TEMP_CRITICAL}
CpuBreakpoints ==
    {CPU_TEMP_LOW, CPU_TEMP_MEDIUM, CPU_TEMP_HIGH, CPU_TEMP_CRITICAL}
UtilBreakpoints == {UTIL_LOW, UTIL_HIGH}

\* A state of the loop in which nothing is in flight and the hardware holds
\* the tracked level, at position p of run.
LoopState(p, level) ==
    /\ pc = p
    /\ stack = <<>>
    /\ current_speed = level
    /\ new_speed = 0
    /\ reason = NoReason
    /\ speed_hex = level
    /\ commit_ok = "ok"
    /\ hw_mode = "manual"
    /\ hw_duty = level
    /\ inflight = {}
    /\ restore_calls = 0
    /\ restore_failed = FALSE
    /\ signals = 0
    /\ error = "none"
    /\ failed_sources = {}
    /\ exit_status = -1
    /\ issued = [first |-> <<ManualCmd, DutyCmd(FAN_DEFAULT)>>,
                 last |-> DutyCmd(level)]
    /\ telemetry_read = TRUE
    /\ missing = "none"

\* The loop at line 242 with any tracked level and any snapshot.
PolicyInit ==
    /\ \E level \in FanLevels : LoopState("decide", level)
    /\ gpu_temp \in Around(GpuBreakpoints)
    /\ cpu_temp \in Around(CpuBreakpoints)
    /\ gpu_util \in Around(UtilBreakpoints)
    /\ drift = NoDrift

PolicySpec == PolicyInit /\ [][Decide]_vars

\* --------------------------------------- one reading drifting at a boundary
\* The readings of the other two sources, held fixed during the run.
DriftBases ==
    [gpu_temp : GpuRowTemps \cup {0}, cpu_temp : {t \div 1000 : t \in ZoneMillis},
     gpu_util : GpuRowUtils \cup {0}]

DriftBreakpoints(axis) ==
    IF axis = "gpu_temp" THEN GpuBreakpoints
    ELSE IF axis = "cpu_temp" THEN CpuBreakpoints
    ELSE UtilBreakpoints

\* The value the drifting reading has in the cycle about to start.
DriftValue == IF drift.low THEN drift.at - 1 ELSE drift.at

\* The tracked levels of the run so far, without repetitions in a row.
LevelsSeen ==
    IF current_speed # drift.levels[Len(drift.levels)]
    THEN Append(drift.levels, current_speed)
    ELSE drift.levels

\* The loop at line 234 with any tracked level; one reading is about to
\* alternate between at - 1 and at, the two sides of breakpoint at.
DriftInit ==
    /\ \E level \in FanLevels :
        /\ LoopState("get_gpu_data", level)
        /\ \E axis \in {"gpu_temp", "cpu_temp", "gpu_util"} :
           \E at \in DriftBreakpoints(axis) :
           \E base \in {b \in DriftBases : b[axis] = 0} :
           \E low \in BOOLEAN :
              drift = [axis |-> axis, at |-> at, base |-> base, low |-> low,
                       levels |-> <<level>>, cycles |-> 0]
    /\ gpu_temp = 0
    /\ cpu_temp = 0
    /\ gpu_util = 0

\* run, lines 234-235, with the readers returning the scenario's snapshot.
DriftRead ==
    /\ InMain
    /\ pc = "get_gpu_data"
    /\ drift # NoDrift
    /\ drift.cycles < MaxDriftCycles
    /\ gpu_temp' = IF drift.axis = "gpu_temp" THEN DriftValue
                   ELSE drift.base.gpu_temp
    /\ cpu_temp' = IF drift.axis = "cpu_temp" THEN DriftValue
                   ELSE drift.base.cpu_temp
    /\ gpu_util' = IF drift.axis = "gpu_util" THEN DriftValue
                   ELSE drift.base.gpu_util
    /\ drift' = [drift EXCEPT !.low = ~drift.low, !.levels = LevelsSeen,
                              !.cycles = drift.cycles + 1]
    /\ pc' = "decide"
    /\ UNCHANGED <<current_speed, new_speed, reason, speed_hex, commit_ok,
                   hardware, shutdown, error, failed_sources, observed>>

DriftNext ==
    \/ DriftRead
    \/ Decide
    \/ FinishManual
    \/ FinishDuty
    \/ Sleep

DriftSpec == DriftInit /\ [][DriftNext]_vars


\* ================================================================== claims

\* A step of the main flow that leaves position p.
MainStepFrom(p) == stack = <<>> /\ pc = p /\ pc' # p

\* The process has ended through cleanup: after a signal or after an
\* exception caught at the loop boundary.
ExitedByShutdown == pc = "exited" /\ (signals > 0 \/ error # "none")

\* C1: whenever the process has exited after a termination signal, whatever
\* the signal interrupted (a shutdown in progress included), restore_auto_fan
\* has been invoked exactly once.
C1_RestoreExactlyOnce ==
    (pc = "exited" /\ signals > 0) => restore_calls = 1

\* C2: whenever the process has exited after a signal or a fatal error of the
\* loop, the hardware fan-control mode is automatic.  The claim is taken with
\* restore commands that succeed: executions in which a restore command
\* failed are left out, so a violation is an exit in manual mode although
\* automatic mode was restored.
C2_AutomaticAtExit ==
    (ExitedByShutdown /\ ~restore_failed) => hw_mode = "auto"

\* C3: a step after which a command of the latest set_fan_speed call is on
\* record as failed leaves current_speed as it was.
C3_FailedCommitKeepsLevel ==
    [][commit_ok' = "failed" => current_speed' = current_speed]_vars

\* C4: when the latest commit failed and the cycle's decision is the level
\* whose commit failed, the cycle calls set_fan_speed again.
C4_FailedCommitRetried ==
    [][(MainStepFrom("decide") /\ commit_ok = "failed" /\ new_speed' = speed_hex)
         => pc' = "manual_cmd"]_vars

\* C5: while the loop sleeps between cycles, the duty cycle last accepted by
\* the hardware is the tracked level.
C5_DutyMatchesTrackedLevel ==
    (pc = "sleep" /\ stack = <<>>) => hw_duty = current_speed

\* The decision of the cycle has been taken: new_speed and reason are those
\* of the snapshot gpu_temp, cpu_temp, gpu_util.
Decided == stack = <<>> /\ pc \in {"manual_cmd", "sleep"}

\* C6: for every snapshot with gpu_temp >= 80 or cpu_temp >= 75 the decision
\* is FAN_MAX, for every tracked level and every value of the other readings.
C6_CriticalGivesMax ==
    (Decided /\ (gpu_temp >= 80 \/ cpu_temp >= 75)) => new_speed = FAN_MAX

C6_Witness ==
    /\ Decided
    /\ cpu_temp = CPU_TEMP_CRITICAL
    /\ gpu_temp < GPU_TEMP_LOW
    /\ gpu_util = 0
    /\ current_speed = FAN_DEFAULT
    /\ new_speed = FAN_MAX

\* The snapshot matches none of the critical, high, medium-or-busy and quiet
\* rules.
InDeadZone ==
    /\ gpu_temp < 60 /\ cpu_temp < 45 /\ gpu_util < 70
    /\ (gpu_temp >= 50 \/ cpu_temp >= 35 \/ gpu_util >= 30)

\* C7: for every snapshot of the dead zone and every tracked level L the
\* decision is L, with the reason "maintaining current level".
C7_DeadZoneHolds ==
    (Decided /\ InDeadZone)
        => /\ new_speed = current_speed
           /\ reason.text = "maintaining current level"

C7_Witness ==
    /\ Decided
    /\ InDeadZone
    /\ gpu_temp = GPU_TEMP_LOW
    /\ cpu_temp < CPU_TEMP_LOW
    /\ gpu_util < UTIL_LOW
    /\ current_speed = FAN_HIGH
    /\ new_speed = FAN_HIGH

\* The rule table: the first matching rule, in descending severity.
ReferenceLevel ==
    CASE gpu_temp >= 80 \/ cpu_temp >= 75 -> FAN_MAX
      [] gpu_temp < 80 /\ cpu_temp < 75 /\ (gpu_temp >= 70 \/ cpu_temp >= 60)
            -> FAN_HIGH
      [] gpu_temp < 70 /\ cpu_temp < 60
            /\ (gpu_temp >= 60 \/ cpu_temp >= 45 \/ gpu_util >= 70)
            -> FAN_MEDIUM
      [] gpu_temp < 50 /\ cpu_temp < 35 /\ gpu_util < 30 -> FAN_DEFAULT
      [] OTHER -> current_speed

\* C8: the decision is the level of the rule table, for every snapshot and
\* every tracked level: rules 1 to 4 decide whatever the tracked level is.
C8_RuleTable ==
    Decided => new_speed = ReferenceLevel

C8_Witness ==
    /\ Decided
    /\ gpu_util = UTIL_HIGH
    /\ gpu_temp < GPU_TEMP_LOW
    /\ cpu_temp < CPU_TEMP_LOW
    /\ current_speed = FAN_MAX
    /\ new_speed = FAN_MEDIUM

\* C9 as stated: in a run of cycles in which one reading alternates between
\* the two sides of any one breakpoint, the other readings held fixed, the
\* tracked level changes at most once.
C9_NoTogglingAtAnyBreakpoint ==
    drift # NoDrift => Len(LevelsSeen) <= 2

\* The run is at a breakpoint that bounds the hysteresis band.
AtBandEdge ==
    /\ drift # NoDrift
    /\ \/ drift.axis = "gpu_temp" /\ drift.at \in {GPU_TEMP_LOW, GPU_TEMP_MEDIUM}
       \/ drift.axis = "cpu_temp" /\ drift.at \in {CPU_TEMP_LOW, CPU_TEMP_MEDIUM}
       \/ drift.axis = "gpu_util" /\ drift.at \in {UTIL_LOW, UTIL_HIGH}

\* C9 amended: in a run of cycles in which one reading alternates between
\* the two sides of a breakpoint that bounds the hysteresis band (the LOW or
\* MEDIUM temperature of the GPU or the CPU, UTIL_LOW or UTIL_HIGH), the other
\* readings held fixed, the tracked level changes at most once.
C9_NoTogglingAtBandEdges ==
    AtBandEdge => Len(LevelsSeen) <= 2

C9_Witness ==
    /\ AtBandEdge
    /\ pc = "sleep"
    /\ drift.cycles = MaxDriftCycles
    /\ drift.axis = "gpu_temp"
    /\ drift.at = GPU_TEMP_MEDIUM
    /\ LevelsSeen = <<FAN_DEFAULT, FAN_MEDIUM>>

\* C10: a sensor read of the loop ends with a reading and the loop goes on to
\* the next read or to the decision; it never leaves the loop.
C10_SensorReadNeverFailsOutwardly ==
    [][(MainStepFrom("get_gpu_data") \/ MainStepFrom("get_cpu_temp"))
         => pc' \in {"get_cpu_temp", "decide"}]_vars

\* The process has ended after an exception reached the loop boundary.
ExitedByException == pc = "exited" /\ error # "none"

InLoop ==
    \/ pc \in {"get_gpu_data", "get_cpu_temp", "decide", "sleep",
               "except_Exception"}
    \/ (pc \in {"manual_cmd", "duty_cmd"} /\ reason.text # "initial setting")

\* C12: whenever check_commands has found ipmitool or nvidia-smi absent, the
\* process has exited with a non-zero status, no actuator command has been
\* issued or has reached the hardware, no telemetry has been read, and the
\* controller is not in its loop.
C12_MissingToolExitsEarly ==
    missing # "none"
        => /\ pc = "exited"
           /\ exit_status # 0
           /\ exit_status # -1
           /\ issued = [first |-> <<>>, last |-> NoCmd]
           /\ hw_mode = "auto"
           /\ hw_duty = 0
           /\ ~telemetry_read
           /\ ~InLoop

C12_Witness ==
    /\ missing = "nvidia-smi"
    /\ pc = "exited"
    /\ exit_status = 1
    /\ issued.first = <<>>
    /\ ~telemetry_read

\* Every actuator command the process has on record: the first two issued, the
\* last issued, those still running under a signal handler, and the duty
\* command set_fan_speed is about to issue.
CommandsOnRecord ==
    {issued.first[i] : i \in 1..Len(issued.first)}
        \cup {issued.last}
        \cup inflight
        \cup (IF Running /\ pc \in {"manual_cmd", "duty_cmd"}
              THEN {DutyCmd(speed_hex)} ELSE {})

\* C13: in every reachable state current_speed is one of FAN_DEFAULT,
\* FAN_MEDIUM, FAN_HIGH, FAN_MAX, every duty-cycle command issued carries one
\* of these four values, and so does the duty the hardware was last given.
C13_LevelsAreEnumerated ==
    /\ current_speed \in FanLevels
    /\ \A c \in CommandsOnRecord : c.op = "duty" => c.duty \in FanLevels
    /\ (hw_duty # 0 => hw_duty \in FanLevels)

C13_Witness ==
    /\ current_speed = FAN_MAX
    /\ issued.last = DutyCmd(FAN_MAX)
    /\ hw_duty = FAN_MAX
    /\ pc = "sleep"

\* The place of a level in the order default, medium, high, max.
Severity(level) == CHOOSE i \in 1..Len(LevelOrder) : LevelOrder[i] = level

\* C14: the duty cycles carried for the levels default, medium, high, max are
\* strictly increasing, and a decision for a level of higher severity than
\* the tracked one commands a strictly higher duty cycle than the tracked
\* level's (and one of lower severity a strictly lower one).
C14_DutyStrictlyIncreasing ==
    /\ \A i, j \in 1..Len(LevelOrder) :
          i < j => duty_byte(LevelOrder[i]) < duty_byte(LevelOrder[j])
    /\ (Decided /\ pc = "manual_cmd")
          => LET commanded == DutyCmd(speed_hex).duty
                 tracked == DutyCmd(current_speed).duty
             IN  /\ Severity(new_speed) > Severity(current_speed)
                        => commanded > tracked
                 /\ Severity(new_speed) < Severity(current_speed)
                        => commanded < tracked

C14_Witness ==
    /\ Decided
    /\ pc = "manual_cmd"
    /\ reason.text = "HIGH temperature"
    /\ current_speed = FAN_MEDIUM
    /\ new_speed = FAN_HIGH
    /\ issued.last = ManualCmd

\* C15: the step of a cycle that decides starts a commit (the manual-enable
\* command, to be followed by the duty command for the decided level) exactly
\* when the decision differs from current_speed; otherwise it goes to the
\* sleep with no command issued and current_speed and the hardware unchanged.
\* The reads and the sleep of a cycle issue no command either.
C15_CommitIffChanged ==
    [][/\ MainStepFrom("decide")
          => IF new_speed' # current_speed
             THEN /\ pc' = "manual_cmd"
                  /\ speed_hex' = new_speed'
                  /\ issued'.last = ManualCmd
             ELSE /\ pc' = "sleep"
                  /\ UNCHANGED <<issued, current_speed, hardware>>
       /\ (\/ MainStepFrom("get_gpu_data")
           \/ MainStepFrom("get_cpu_temp")
           \/ MainStepFrom("sleep"))
          => UNCHANGED <<issued, current_speed, hardware>>]_vars

C15_Witness ==
    /\ InMain
    /\ pc = "sleep"
    /\ new_speed = current_speed
    /\ current_speed = FAN_HIGH
    /\ reason.text = "maintaining current level"
    /\ gpu_temp = GPU_TEMP_LOW
    /\ issued.last = DutyCmd(FAN_HIGH)
    /\ hw_duty = FAN_HIGH

\* The initial commit of run is in progress.
InInitialCommit ==
    \/ pc = "initial_setting"
    \/ (pc \in {"manual_cmd", "duty_cmd"} /\ reason.text = "initial setting")

\* C16: once the loop has been entered, the first two actuator commands issued
\* are the manual-enable command and the duty command for FAN_DEFAULT; the
\* first of them is issued only when both dependency checks have passed; no
\* telemetry has been read while the initial commit is in progress; and the
\* loop is entered with current_speed = FAN_DEFAULT.
C16_InitialCommitFirst ==
    /\ (InLoop \/ telemetry_read)
          => issued.first = <<ManualCmd, DutyCmd(FAN_DEFAULT)>>
    /\ (issued.first # <<>> /\ issued.first[1] # AutoCmd)
          => /\ issued.first[1] = ManualCmd
             /\ pc \notin {"check_ipmitool", "check_nvidia_smi",
                           "initial_setting"}
             /\ missing = "none"
    /\ (Running /\ InInitialCommit) => ~telemetry_read
    /\ (pc = "get_gpu_data" /\ ~telemetry_read) => current_speed = FAN_DEFAULT

C16_Witness ==
    /\ InMain
    /\ pc = "get_gpu_data"
    /\ ~telemetry_read
    /\ issued.first = <<ManualCmd, DutyCmd(FAN_DEFAULT)>>
    /\ current_speed = FAN_DEFAULT
    /\ hw_mode = "manual"
    /\ hw_duty = FAN_DEFAULT

\* C17: from the moment restore_auto_fan has been invoked, every step of the
\* process leaves the restore command as the last command issued, leaves
\* current_speed as it is, and moves the main flow nowhere but to the exit: an
\* interrupted commit is not resumed.
C17_NothingIssuedAfterRestore ==
    [][restore_calls >= 1
         => /\ issued.last = AutoCmd
            /\ issued'.last = AutoCmd
            /\ current_speed' = current_speed
            /\ pc' \in {pc, "exited"}]_vars

C17_Witness ==
    /\ pc = "exited"
    /\ signals = 1
    /\ restore_calls = 1
    /\ issued.last = AutoCmd
    /\ speed_hex = FAN_MAX
    /\ current_speed = FAN_DEFAULT
    /\ hw_duty = FAN_DEFAULT

\* C18 for the failures the readers catch: in a cycle where both readers
\* reported no usable source, the snapshot is (0, 0, 0) and the decision is
\* FAN_DEFAULT by the quiet rule, whatever the tracked level.
CaughtOutageGivesDefault ==
    (failed_sources = {"gpu", "cpu"} /\ pc \in {"manual_cmd", "duty_cmd", "sleep"})
        => /\ gpu_temp = 0 /\ gpu_util = 0 /\ cpu_temp = 0
           /\ new_speed = FAN_DEFAULT
           /\ reason.text = "LOW temperatures and utilization"

CaughtOutageLowersMax ==
    /\ failed_sources = {"gpu", "cpu"}
    /\ pc = "manual_cmd"
    /\ current_speed = FAN_MAX
    /\ speed_hex = FAN_DEFAULT

\* C18: in a cycle where the GPU read has failed and the CPU read fails too,
\* whichever way it fails, the loop goes on to the decision with the snapshot
\* (0, 0, 0), for which the decision is FAN_DEFAULT.
C18_TotalOutageGivesDefault ==
    [][(/\ MainStepFrom("get_cpu_temp")
        /\ "gpu" \in failed_sources
        /\ (error' # "none" \/ "cpu" \in failed_sources'))
         => /\ pc' = "decide"
            /\ gpu_temp' = 0 /\ gpu_util' = 0 /\ cpu_temp' = 0
            /\ determine_fan_speed(gpu_temp', cpu_temp', gpu_util').speed
                   = FAN_DEFAULT]_vars

\* C19: a cycle whose snapshot lies in the dead zone decides the tracked
\* level, goes to the sleep without issuing a command and leaves
\* current_speed and the hardware as they were; the sleep and the reads that
\* separate it from the next decision change none of these either.  So over a
\* run of such cycles of any length current_speed stays what it was before
\* the run and no command is issued.
C19_DeadZoneRunHolds ==
    [][/\ (MainStepFrom("decide") /\ InDeadZone)
          => /\ pc' = "sleep"
             /\ new_speed' = current_speed
             /\ current_speed' = current_speed
             /\ issued' = issued
             /\ hw_mode' = hw_mode /\ hw_duty' = hw_duty
       /\ (stack = <<>> /\ pc \in {"sleep", "get_gpu_data", "get_cpu_temp"}
             /\ pc' # pc)
          => /\ current_speed' = current_speed
             /\ issued' = issued
             /\ hw_mode' = hw_mode /\ hw_duty' = hw_duty]_vars

C19_Witness ==
    /\ InMain
    /\ pc = "sleep"
    /\ InDeadZone
    /\ cpu_temp = CPU_TEMP_LOW
    /\ reason.text = "maintaining current level"
    /\ current_speed = FAN_MAX
    /\ new_speed = FAN_MAX
    /\ issued.last = DutyCmd(FAN_MAX)
    /\ hw_duty = FAN_MAX

====
